---- MODULE Spec2Model ----
(***************************************************************************)
(* A model of aggregate_results.py: the Locator (collect_all_results), the *)
(* Aggregator (compute_scene_statistics, compute_overall_statistics) and   *)
(* the driver main().                                                      *)
(*                                                                         *)
(* Strings that the code takes apart (directory names) are sequences of    *)
(* one-character strings.  Numbers are exact: a metric value is an         *)
(* integer, a mean is a normalised fraction <<num, den>>, and a standard   *)
(* deviation is kept as the square root of a fraction.  Floating-point     *)
(* rounding is not modelled.                                               *)
(***************************************************************************)
EXTENDS Integers, Sequences, FiniteSets, TLC

VARIABLES
    root,            \* what the --results_dir path is: "dir", "absent", "file"
    children,        \* name -> entry, the children of the root directory
    out_opt,         \* --output_dir: "default" (None) or "other"
    out_exists,      \* whether the other output directory exists already
    formats,         \* --formats, a non-empty subset of {"json", "csv"}
    pc,              \* position in main()
    created,         \* directories created by the run
    scene_case_dirs, \* the sorted list of line 70
    idx,             \* position of the loop of line 78 in scene_case_dirs
    missing_count,   \* line 76
    all_results,     \* the collection, in insertion order
    scene_stats,     \* scene name -> GroupStats (line 281)
    overall_stats,   \* OverallStats (line 287)
    metadata,        \* line 293
    written,         \* the output files written
    exit_code,       \* -1 while running, then the process's exit status
    message          \* the fatal message printed, or "exception", or "none"

vars == <<root, children, out_opt, out_exists, formats, pc, created,
          scene_case_dirs, idx, missing_count, all_results, scene_stats,
          overall_stats, metadata, written, exit_code, message>>

----------------------------------------------------------------------------
(* Bounds of the model.                                                    *)

\* most children of the root directory, in the runs of main()
MaxDirs == 2
\* most children of the root directory, in the runs of the Locator alone
MaxScan == 2
\* most sub-units of a collection given to the Aggregator directly
MaxUnits == 3

----------------------------------------------------------------------------
(* Characters and strings.                                                 *)

Digits == {"0", "1", "2", "3", "4", "5", "6", "7", "8", "9"}

\* the code point of a character (ord), for the characters the model uses
Ord(c) ==
    CASE c = " " -> 32 [] c = "+" -> 43 [] c = "-" -> 45
      [] c = "0" -> 48 [] c = "1" -> 49 [] c = "2" -> 50 [] c = "3" -> 51
      [] c = "4" -> 52 [] c = "5" -> 53 [] c = "6" -> 54 [] c = "7" -> 55
      [] c = "8" -> 56 [] c = "9" -> 57
      [] c = "X" -> 88 [] c = "_" -> 95
      [] c = "a" -> 97 [] c = "b" -> 98 [] c = "c" -> 99 [] c = "e" -> 101
      [] c = "p" -> 112 [] c = "s" -> 115

\* s < t as Python compares two str: by code point, a proper prefix first
RECURSIVE StrLess(_, _)
StrLess(s, t) ==
    IF t = <<>> THEN FALSE
    ELSE IF s = <<>> THEN TRUE
    ELSE IF Ord(Head(s)) # Ord(Head(t)) THEN Ord(Head(s)) < Ord(Head(t))
    ELSE StrLess(Tail(s), Tail(t))

\* does t begin with the characters of p
StartsWith(t, p) ==
    /\ Len(t) >= Len(p)
    /\ SubSeq(t, 1, Len(p)) = p

\* str.split(sep): the parts between the occurrences of sep, found left to
\* right without overlap; cur is the part being read
RECURSIVE SplitFrom(_, _, _)
SplitFrom(s, sep, cur) ==
    IF s = <<>> THEN <<cur>>
    ELSE IF StartsWith(s, sep)
         THEN <<cur>> \o SplitFrom(SubSeq(s, Len(sep) + 1, Len(s)), sep, <<>>)
         ELSE SplitFrom(Tail(s), sep, Append(cur, Head(s)))

Split(s, sep) == SplitFrom(s, sep, <<>>)

\* sep in s
Contains(s, sep) == Len(Split(s, sep)) > 1

\* str.strip() of whitespace
RECURSIVE LStrip(_)
LStrip(s) == IF s # <<>> /\ Head(s) = " " THEN LStrip(Tail(s)) ELSE s

RECURSIVE RStrip(_)
RStrip(s) ==
    IF s # <<>> /\ s[Len(s)] = " " THEN RStrip(SubSeq(s, 1, Len(s) - 1)) ELSE s

DigitVal(c) == Ord(c) - Ord("0")

\* the digits of a literal: digits, with single underscores between digits
DigitsOk(s) ==
    /\ s # <<>>
    /\ \A i \in 1..Len(s) : s[i] \in Digits \cup {"_"}
    /\ s[1] # "_" /\ s[Len(s)] # "_"
    /\ \A i \in 1..(Len(s) - 1) : ~(s[i] = "_" /\ s[i + 1] = "_")

RECURSIVE DigitsValue(_, _)
DigitsValue(s, acc) ==
    IF s = <<>> THEN acc
    ELSE IF Head(s) = "_" THEN DigitsValue(Tail(s), acc)
    ELSE DigitsValue(Tail(s), 10 * acc + DigitVal(Head(s)))

\* int(s) of Python: surrounding whitespace, an optional sign, the digits;
\* ok is FALSE where int raises ValueError
ParseInt(s) ==
    LET t    == RStrip(LStrip(s))
        sgn  == t # <<>> /\ Head(t) \in {"+", "-"}
        body == IF sgn THEN Tail(t) ELSE t
    IN  IF DigitsOk(body)
        THEN [ok |-> TRUE,
              v  |-> IF sgn /\ Head(t) = "-" THEN 0 - DigitsValue(body, 0)
                     ELSE DigitsValue(body, 0)]
        ELSE [ok |-> FALSE, v |-> 0]

\* the delimiter '_case'
Delim == <<"_", "c", "a", "s", "e">>

\* extract_scene_and_case: (scene_name, case_id), or (None, None) as ok = FALSE
extract_scene_and_case(dirname) ==
    LET parts == Split(dirname, Delim)
    IN  IF Len(parts) = 2 /\ ParseInt(parts[2]).ok
        THEN [ok |-> TRUE, scene |-> parts[1], case |-> ParseInt(parts[2]).v]
        ELSE [ok |-> FALSE, scene |-> <<>>, case |-> 0]

----------------------------------------------------------------------------
(* The values json.load returns.  One record shape for all of them: t is   *)
(* the Python type, n the number held (a bool holds 1 or 0, as int(True)   *)
(* and int(False)), kv the mapping of a dict.                              *)

NoKeys == <<>>

JNull    == [t |-> "null", n |-> 0, kv |-> NoKeys]
JStr     == [t |-> "str",  n |-> 0, kv |-> NoKeys]
JList    == [t |-> "list", n |-> 0, kv |-> NoKeys]
JNum(k)  == [t |-> "num",  n |-> k, kv |-> NoKeys]
JBool(b) == [t |-> "bool", n |-> IF b THEN 1 ELSE 0, kv |-> NoKeys]
JObj(f)  == [t |-> "obj",  n |-> 0, kv |-> f]

\* isinstance(value, (int, float)): bool is a subclass of int
IsNumber(value) == value.t \in {"num", "bool"}

\* whether x.items() exists: only a dict has it, anything else raises
\* AttributeError
HasItems(x) == x.t = "obj"

----------------------------------------------------------------------------
(* Exact arithmetic: a fraction is <<num, den>> with den > 0, in lowest    *)
(* terms.                                                                  *)

Abs(n) == IF n < 0 THEN 0 - n ELSE n

RECURSIVE Gcd(_, _)
Gcd(a, b) == IF b = 0 THEN a ELSE Gcd(b, a % b)

Frac(n, d) ==
    LET g == Gcd(Abs(n), Abs(d))
        s == IF d < 0 THEN 0 - 1 ELSE 1
    IN  <<(s * n) \div g, (s * d) \div g>>

ToFrac(k)    == <<k, 1>>
FracAdd(a, b) == Frac(a[1] * b[2] + b[1] * a[2], a[2] * b[2])
FracSub(a, b) == Frac(a[1] * b[2] - b[1] * a[2], a[2] * b[2])
FracMul(a, b) == Frac(a[1] * b[1], a[2] * b[2])
FracLess(a, b) == a[1] * b[2] < b[1] * a[2]

RECURSIVE FracSum(_)
FracSum(values) ==
    IF values = <<>> THEN ToFrac(0)
    ELSE FracAdd(Head(values), FracSum(Tail(values)))

\* the non-negative square root of a fraction, kept exact as its radicand
Sqrt(r) == [radicand |-> r]

\* np.mean of a non-empty array
Mean(values) == FracMul(FracSum(values), Frac(1, Len(values)))

\* np.std of a non-empty array: sqrt(mean(abs(x - x.mean()) ** 2)), ddof = 0
Std(values) ==
    LET m   == Mean(values)
        dev == [i \in 1..Len(values) |->
                   FracMul(FracSub(values[i], m), FracSub(values[i], m))]
    IN  Sqrt(Mean(dev))

\* np.min and np.max of a non-empty array
Min(values) ==
    CHOOSE x \in {values[i] : i \in 1..Len(values)} :
        \A j \in 1..Len(values) : ~FracLess(values[j], x)

Max(values) ==
    CHOOSE x \in {values[i] : i \in 1..Len(values)} :
        \A j \in 1..Len(values) : ~FracLess(x, values[j])

----------------------------------------------------------------------------
(* The Aggregator.  A dict that the code iterates in insertion order is a  *)
(* sequence of entries: scene_results is a sequence of                     *)
(* [case_id, results], all_scene_stats a sequence of [scene, stats].       *)

\* the value a case appends to iteration_metrics[label][metric] (lines
\* 116-119): none when the pair is not there or the value is no number
Appended(case_data, iteration_name, metric_name) ==
    IF /\ iteration_name \in DOMAIN case_data.kv
       /\ metric_name \in DOMAIN case_data.kv[iteration_name].kv
       /\ IsNumber(case_data.kv[iteration_name].kv[metric_name])
    THEN <<case_data.kv[iteration_name].kv[metric_name].n>>
    ELSE <<>>

\* iteration_metrics[label][metric] after the loop of line 115
RECURSIVE MetricValues(_, _, _)
MetricValues(scene_results, iteration_name, metric_name) ==
    IF scene_results = <<>> THEN <<>>
    ELSE Appended(Head(scene_results).results, iteration_name, metric_name)
           \o MetricValues(Tail(scene_results), iteration_name, metric_name)

\* the keys the loop of line 115 meets
LabelsOf(scene_results) ==
    UNION {DOMAIN scene_results[i].results.kv : i \in 1..Len(scene_results)}

MetricsOf(scene_results, iteration_name) ==
    UNION {DOMAIN scene_results[i].results.kv[iteration_name].kv :
             i \in {j \in 1..Len(scene_results) :
                      iteration_name \in DOMAIN scene_results[j].results.kv}}

\* the keys of iteration_metrics[label]: a defaultdict entry exists only
\* once a value was appended under it
MetricKeys(scene_results, iteration_name) ==
    {m \in MetricsOf(scene_results, iteration_name) :
        MetricValues(scene_results, iteration_name, m) # <<>>}

\* the keys of iteration_metrics
IterationKeys(scene_results) ==
    {l \in LabelsOf(scene_results) : MetricKeys(scene_results, l) # {}}

\* the loop of line 115 raises AttributeError on a case, or a label's value,
\* that is no dict
SceneStatisticsRaises(scene_results) ==
    \E i \in 1..Len(scene_results) :
        \/ ~HasItems(scene_results[i].results)
        \/ \E l \in DOMAIN scene_results[i].results.kv :
               ~HasItems(scene_results[i].results.kv[l])

Fracs(values) == [i \in 1..Len(values) |-> ToFrac(values[i])]

\* lines 127-135
SceneStatBlock(values) ==
    [mean   |-> Mean(Fracs(values)),
     std    |-> Std(Fracs(values)),
     min    |-> Min(Fracs(values)),
     max    |-> Max(Fracs(values)),
     count  |-> Len(values),
     values |-> values]

\* a variant that keeps every pair met, with a zero block where no value
\* was appended
compute_scene_statistics_degenerate(scene_results) ==
    [l \in LabelsOf(scene_results) |->
        [m \in MetricsOf(scene_results, l) |->
            IF MetricValues(scene_results, l, m) = <<>>
            THEN [mean |-> ToFrac(0), std |-> Sqrt(ToFrac(0)), min |-> ToFrac(0),
                  max |-> ToFrac(0), count |-> 0, values |-> <<>>]
            ELSE SceneStatBlock(MetricValues(scene_results, l, m))]]

\* compute_scene_statistics, where it does not raise
compute_scene_statistics(scene_results) ==
    [l \in IterationKeys(scene_results) |->
        [m \in MetricKeys(scene_results, l) |->
            SceneStatBlock(MetricValues(scene_results, l, m))]]

\* a variant that pools the raw values of every scene instead of its mean
RECURSIVE SceneRawValues(_, _, _)
SceneRawValues(all_scene_stats, iteration_name, metric_name) ==
    IF all_scene_stats = <<>> THEN <<>>
    ELSE (IF /\ iteration_name \in DOMAIN Head(all_scene_stats).stats
             /\ metric_name \in DOMAIN Head(all_scene_stats).stats[iteration_name]
          THEN Fracs(Head(all_scene_stats).stats[iteration_name][metric_name].values)
          ELSE <<>>)
           \o SceneRawValues(Tail(all_scene_stats), iteration_name, metric_name)

\* iteration_overall[label][metric] after the loop of line 155: the mean of
\* every scene that has the pair
RECURSIVE SceneMeans(_, _, _)
SceneMeans(all_scene_stats, iteration_name, metric_name) ==
    IF all_scene_stats = <<>> THEN <<>>
    ELSE (IF /\ iteration_name \in DOMAIN Head(all_scene_stats).stats
             /\ metric_name \in DOMAIN Head(all_scene_stats).stats[iteration_name]
          THEN <<Head(all_scene_stats).stats[iteration_name][metric_name].mean>>
          ELSE <<>>)
           \o SceneMeans(Tail(all_scene_stats), iteration_name, metric_name)

OverallMetricKeys(all_scene_stats, iteration_name) ==
    UNION {DOMAIN all_scene_stats[i].stats[iteration_name] :
             i \in {j \in 1..Len(all_scene_stats) :
                      iteration_name \in DOMAIN all_scene_stats[j].stats}}

OverallIterationKeys(all_scene_stats) ==
    {l \in UNION {DOMAIN all_scene_stats[i].stats : i \in 1..Len(all_scene_stats)} :
        OverallMetricKeys(all_scene_stats, l) # {}}

\* lines 167-174
OverallStatBlock(values) ==
    [mean  |-> Mean(values),
     std   |-> Std(values),
     min   |-> Min(values),
     max   |-> Max(values),
     count |-> Len(values)]

\* compute_overall_statistics
compute_overall_statistics(all_scene_stats) ==
    [l \in OverallIterationKeys(all_scene_stats) |->
        [m \in OverallMetricKeys(all_scene_stats, l) |->
            OverallStatBlock(SceneMeans(all_scene_stats, l, m))]]

----------------------------------------------------------------------------
(* The Locator.  A child of the root directory is an entry                 *)
(* [dir, file, val]: dir says whether it is a directory, file what its     *)
(* results.json is ("absent", "garbage" when open or json.load raises,     *)
(* "json" when json.load returns val).                                     *)

\* a variant that answers an exception with an empty dict instead of None
load_results_json_empty(entry) ==
    IF entry.file = "json" THEN entry.val ELSE JObj(NoKeys)

\* load_results_json: the parsed value, or None (here JNull) on any exception
load_results_json(entry) ==
    IF entry.file = "json" THEN entry.val ELSE JNull

\* cases[case_id] = results on a dict kept in insertion order: an existing
\* key keeps its place
PutCase(cases, case_id, results) ==
    IF \E i \in 1..Len(cases) : cases[i].case_id = case_id
    THEN [i \in 1..Len(cases) |->
             IF cases[i].case_id = case_id
             THEN [case_id |-> case_id, results |-> results]
             ELSE cases[i]]
    ELSE Append(cases, [case_id |-> case_id, results |-> results])

\* all_results[scene_name][case_id] = results (line 89), on the defaultdict
PutResult(all, scene_name, case_id, results) ==
    IF \E i \in 1..Len(all) : all[i].scene = scene_name
    THEN [i \in 1..Len(all) |->
             IF all[i].scene = scene_name
             THEN [scene |-> scene_name,
                   cases |-> PutCase(all[i].cases, case_id, results)]
             ELSE all[i]]
    ELSE Append(all, [scene |-> scene_name,
                      cases |-> PutCase(<<>>, case_id, results)])

\* a sequence with x put before the first element that is not below it
RECURSIVE InsertSorted(_, _)
InsertSorted(x, seq) ==
    IF seq = <<>> THEN <<x>>
    ELSE IF StrLess(Head(seq), x) THEN <<Head(seq)>> \o InsertSorted(x, Tail(seq))
    ELSE <<x>> \o seq

\* a variant that leaves the list in the order of enumeration
unsorted(seq) == seq

\* sorted(list) of names
RECURSIVE sorted(_)
sorted(seq) ==
    IF seq = <<>> THEN <<>> ELSE InsertSorted(Head(seq), sorted(Tail(seq)))

\* the list comprehension of lines 70-71 over an enumeration of the children
RECURSIVE SceneCaseFilter(_, _)
SceneCaseFilter(enum, kids) ==
    IF enum = <<>> THEN <<>>
    ELSE (IF kids[Head(enum)].dir /\ Contains(Head(enum), Delim)
          THEN <<Head(enum)>> ELSE <<>>) \o SceneCaseFilter(Tail(enum), kids)

\* the orders in which iterdir may yield the children
Enumerations(S) ==
    {e \in [1..Cardinality(S) -> S] : \A i, j \in 1..Cardinality(S) : e[i] = e[j] => i = j}

\* is results_dir a directory, once the run may have created it
RootIsDir == root = "dir" \/ "results_dir" \in created

NoStats == <<>>
NoMetadata == [num_scenes |-> 0, num_cases |-> 0, scene_list |-> <<>>]

----------------------------------------------------------------------------
(* main(), step by step.                                                   *)

\* lines 249-251: output_dir.mkdir(parents=True, exist_ok=True), before the
\* root is looked at.  With no --output_dir the output directory is the
\* root: an absent root is created, a root that is a file raises
\* FileExistsError.
MakeOutputDir ==
    /\ pc = "start"
    /\ IF out_opt = "default" /\ root = "file"
       THEN /\ pc' = "exit" /\ exit_code' = 1 /\ message' = "exception"
            /\ UNCHANGED created
       ELSE /\ pc' = "check_root"
            /\ created' = IF out_opt = "default" /\ root = "absent"
                          THEN created \cup {"results_dir"}
                          ELSE IF out_opt = "other" /\ ~out_exists
                          THEN created \cup {"output_dir"}
                          ELSE created
            /\ UNCHANGED <<exit_code, message>>
    /\ UNCHANGED <<root, children, out_opt, out_exists, formats, scene_case_dirs,
                   idx, missing_count, all_results, scene_stats, overall_stats,
                   metadata, written>>

\* lines 253-255
CheckRoot ==
    /\ pc = "check_root"
    /\ IF ~RootIsDir
       THEN pc' = "exit" /\ exit_code' = 1 /\ message' = "root_not_found"
       ELSE pc' = "scan" /\ UNCHANGED <<exit_code, message>>
    /\ UNCHANGED <<root, children, out_opt, out_exists, formats, created,
                   scene_case_dirs, idx, missing_count, all_results, scene_stats,
                   overall_stats, metadata, written>>

\* collect_all_results, lines 66-76: the children in the order iterdir yields
\* them, filtered, sorted
Scan ==
    /\ pc = "scan"
    /\ \E enum \in Enumerations(DOMAIN children) :
           scene_case_dirs' = sorted(SceneCaseFilter(enum, children))
    /\ idx' = 1
    /\ missing_count' = 0
    /\ all_results' = <<>>
    /\ pc' = "loop"
    /\ UNCHANGED <<root, children, out_opt, out_exists, formats, created,
                   scene_stats, overall_stats, metadata, written, exit_code, message>>

\* collect_all_results, one turn of the loop of lines 78-92
ProcessDir ==
    /\ pc = "loop"
    /\ idx <= Len(scene_case_dirs)
    /\ LET name    == scene_case_dirs[idx]
           sc      == extract_scene_and_case(name)
           results == load_results_json(children[name])
       IN  IF ~sc.ok
           THEN UNCHANGED <<all_results, missing_count>>
           ELSE IF children[name].file = "absent"
           THEN missing_count' = missing_count + 1 /\ UNCHANGED all_results
           ELSE IF results # JNull
           THEN /\ all_results' = PutResult(all_results, sc.scene, sc.case, results)
                /\ UNCHANGED missing_count
           ELSE UNCHANGED <<all_results, missing_count>>
    /\ idx' = idx + 1
    /\ UNCHANGED <<root, children, out_opt, out_exists, formats, pc, created,
                   scene_case_dirs, scene_stats, overall_stats, metadata, written,
                   exit_code, message>>

\* the loop is over: collect_all_results returns (line 97) and main tests the
\* collection (lines 267-269)
ReturnCollection ==
    /\ pc = "loop"
    /\ idx > Len(scene_case_dirs)
    /\ IF all_results = <<>>
       THEN pc' = "exit" /\ exit_code' = 1 /\ message' = "no_results"
       ELSE pc' = "aggregate" /\ UNCHANGED <<exit_code, message>>
    /\ UNCHANGED <<root, children, out_opt, out_exists, formats, created,
                   scene_case_dirs, idx, missing_count, all_results, scene_stats,
                   overall_stats, metadata, written>>

\* lines 281-283; an exception of compute_scene_statistics is not caught and
\* ends the process with status 1
ComputeSceneStats ==
    /\ pc = "aggregate"
    /\ IF \E i \in 1..Len(all_results) : SceneStatisticsRaises(all_results[i].cases)
       THEN /\ pc' = "exit" /\ exit_code' = 1 /\ message' = "exception"
            /\ UNCHANGED scene_stats
       ELSE /\ scene_stats' =
                  [i \in 1..Len(all_results) |->
                      [scene |-> all_results[i].scene,
                       stats |-> compute_scene_statistics(all_results[i].cases)]]
            /\ pc' = "overall"
            /\ UNCHANGED <<exit_code, message>>
    /\ UNCHANGED <<root, children, out_opt, out_exists, formats, created,
                   scene_case_dirs, idx, missing_count, all_results,
                   overall_stats, metadata, written>>

RECURSIVE SumLens(_)
SumLens(all) == IF all = <<>> THEN 0 ELSE Len(Head(all).cases) + SumLens(Tail(all))

\* a variant whose num_cases counts the scenes
MakeMetadataCountScenes(all) ==
    [num_scenes |-> Len(all),
     num_cases  |-> Len(all),
     scene_list |-> sorted([i \in 1..Len(all) |-> all[i].scene])]

\* lines 271-272 and 293-299
MakeMetadata(all) ==
    [num_scenes |-> Len(all),
     num_cases  |-> SumLens(all),
     scene_list |-> sorted([i \in 1..Len(all) |-> all[i].scene])]

\* lines 287-299
ComputeOverallStats ==
    /\ pc = "overall"
    /\ overall_stats' = compute_overall_statistics(scene_stats)
    /\ metadata' = MakeMetadata(all_results)
    /\ pc' = "save"
    /\ UNCHANGED <<root, children, out_opt, out_exists, formats, created,
                   scene_case_dirs, idx, missing_count, all_results, scene_stats,
                   written, exit_code, message>>

\* lines 301-322: the files of the formats asked for; main returns
Save ==
    /\ pc = "save"
    /\ written' = formats
    /\ pc' = "exit"
    /\ exit_code' = 0
    /\ UNCHANGED <<root, children, out_opt, out_exists, formats, created,
                   scene_case_dirs, idx, missing_count, all_results, scene_stats,
                   overall_stats, metadata, message>>

----------------------------------------------------------------------------
(* The inputs the runs are started on.                                     *)

Name(prefix, suffix) == prefix \o Delim \o suffix

\* {label: {metric: value}}
One(label, metric, value) ==
    JObj([l \in {label} |-> JObj([m \in {metric} |-> value])])

Unit20 == One("ours_7000", "PSNR", JNum(20))
Unit22 == One("ours_7000", "PSNR", JNum(22))
Unit30 == One("ours_7000", "PSNR", JNum(30))

\* well-formed result files: label -> metric -> value, values of every type
WellFormedUnits ==
    { Unit20, Unit22,
      One("ours_7000", "PSNR", JBool(TRUE)),
      JObj([l \in {"ours_7000", "ours_30000"} |->
              IF l = "ours_7000"
              THEN JObj([m \in {"PSNR", "SSIM"} |-> IF m = "PSNR" THEN JStr ELSE JNull])
              ELSE JObj([m \in {"PSNR"} |-> JObj(NoKeys)])]),
      JObj([l \in {"ours_7000", "ours_30000"} |->
              IF l = "ours_7000"
              THEN JObj([m \in {"PSNR", "SSIM"} |->
                            IF m = "PSNR" THEN JNum(30) ELSE JList])
              ELSE JObj([m \in {"PSNR"} |-> JNum(20)])]),
      JObj([l \in {"ours_30000"} |->
              JObj([m \in {"PSNR", "SSIM"} |->
                      IF m = "PSNR" THEN JBool(FALSE) ELSE JNum(22)])]),
      JObj(NoKeys) }

\* result files that parse but are no mapping of mappings
MalformedUnits == { JList, JObj([l \in {"ours_7000"} |-> JNum(20)]) }

Dir(file, val) == [dir |-> TRUE, file |-> file, val |-> val]
NotDir == [dir |-> FALSE, file |-> "absent", val |-> JNull]

\* the children main() is run on
MainNames ==
    { Name(<<"a">>, <<"0">>), Name(<<"a">>, <<"1">>), Name(<<"b">>, <<"0">>),
      <<"p">> }

MainEntries ==
    { Dir("absent", JNull), Dir("garbage", JNull),
      Dir("json", Unit20), Dir("json", Unit30),
      Dir("json", One("ours_7000", "PSNR", JStr)), NotDir }
      \cup {Dir("json", unit) : unit \in MalformedUnits}

\* the children the Locator alone is run on
ScanNames ==
    { Name(<<"a">>, <<"1">>), Name(<<"a">>, <<"0", "1">>),
      Name(<<"a">>, <<"+", "1">>), Name(<<"a">>, <<"-", "1">>),
      Name(<<"a">>, <<"X">>), Name(<<"a">>, <<>>),
      Name(Name(<<"a">>, <<"1">>), <<"2">>), Name(<<"b">>, <<"1", "_", "0">>),
      Name(<<>>, <<"2">>), <<"a", "_", "c", "a", "s">> }

ScanEntries ==
    { Dir("absent", JNull), Dir("garbage", JNull), Dir("json", JNull),
      Dir("json", Unit20), Dir("json", Unit30), NotDir }

\* the directories of up to n children with the names and entries given
Directories(names, entries, n) ==
    UNION {[S -> entries] : S \in {T \in SUBSET names : Cardinality(T) <= n}}

FormatChoices == {{"json", "csv"}, {"json"}, {"csv"}}

\* the group keys of the collections given to the Aggregator directly
GroupKeys == {<<"a">>, <<"b">>}

\* the collection that inserting the picks in order builds; the sub-unit id
\* of a pick is its position
RECURSIVE Build(_, _)
Build(picks, n) ==
    IF n = 0 THEN <<>>
    ELSE PutResult(Build(picks, n - 1), picks[n].scene, n - 1, picks[n].results)

Collections ==
    {Build(picks, Len(picks)) :
        picks \in UNION {[1..n -> [scene : GroupKeys, results : WellFormedUnits]] :
                           n \in 1..MaxUnits}}

----------------------------------------------------------------------------
(* The specifications.                                                     *)

Fresh ==
    /\ created = {}
    /\ scene_case_dirs = <<>>
    /\ idx = 1
    /\ missing_count = 0
    /\ scene_stats = <<>>
    /\ overall_stats = NoStats
    /\ metadata = NoMetadata
    /\ written = {}
    /\ exit_code = 0 - 1
    /\ message = "none"

\* a run of main()
Init ==
    /\ root \in {"dir", "absent", "file"}
    /\ children \in IF root = "dir"
                    THEN Directories(MainNames, MainEntries, MaxDirs)
                    ELSE Directories({}, MainEntries, 0)
    /\ out_opt \in {"default", "other"}
    /\ out_exists \in IF out_opt = "other" THEN BOOLEAN ELSE {FALSE}
    /\ formats \in FormatChoices
    /\ pc = "start"
    /\ all_results = <<>>
    /\ Fresh

Next ==
    \/ MakeOutputDir
    \/ CheckRoot
    \/ Scan
    \/ ProcessDir
    \/ ReturnCollection
    \/ ComputeSceneStats
    \/ ComputeOverallStats
    \/ Save

Spec == Init /\ [][Next]_vars

\* collect_all_results on a root directory that exists
InitLocate ==
    /\ root = "dir"
    /\ children \in Directories(ScanNames, ScanEntries, MaxScan)
    /\ out_opt = "default"
    /\ out_exists = FALSE
    /\ formats = {"json", "csv"}
    /\ pc = "scan"
    /\ all_results = <<>>
    /\ Fresh

NextLocate ==
    \/ Scan
    \/ ProcessDir
    \/ ReturnCollection

SpecLocate == InitLocate /\ [][NextLocate]_vars

\* the Aggregator on a collection
InitStats ==
    /\ root = "dir"
    /\ children = NoKeys
    /\ out_opt = "default"
    /\ out_exists = FALSE
    /\ formats = {"json", "csv"}
    /\ pc = "aggregate"
    /\ all_results \in Collections
    /\ Fresh

NextStats ==
    \/ ComputeSceneStats
    \/ ComputeOverallStats

SpecStats == InitStats /\ [][NextStats]_vars

----------------------------------------------------------------------------
(* What the properties speak of.                                           *)

AllLabels  == {"ours_7000", "ours_30000"}
AllMetrics == {"PSNR", "SSIM"}

\* scene_stats holds the statistics of all_results, group by group
Aggregated == pc \in {"overall", "save"} \/ (pc = "exit" /\ exit_code = 0)

\* the Locator has returned
Located == pc \in {"aggregate", "overall", "save"} \/ (pc = "exit" /\ RootIsDir)

HasPair(unit, l, m) ==
    /\ HasItems(unit)
    /\ l \in DOMAIN unit.kv
    /\ HasItems(unit.kv[l])
    /\ m \in DOMAIN unit.kv[l].kv

InStats(st, l, m) == l \in DOMAIN st /\ m \in DOMAIN st[l]

\* the sub-units of a group holding, at a pair, a value of one of the types
Holders(cases, l, m, types) ==
    {k \in 1..Len(cases) :
        HasPair(cases[k].results, l, m) /\ cases[k].results.kv[l].kv[m].t \in types}

\* the numbers those sub-units hold, in the order of the sub-units
RECURSIVE Reported(_, _, _, _)
Reported(cases, l, m, types) ==
    IF cases = <<>> THEN <<>>
    ELSE (IF HasPair(Head(cases).results, l, m)
             /\ Head(cases).results.kv[l].kv[m].t \in types
          THEN <<Head(cases).results.kv[l].kv[m].n>> ELSE <<>>)
           \o Reported(Tail(cases), l, m, types)

RECURSIVE SumOf(_)
SumOf(fracs) == IF fracs = <<>> THEN ToFrac(0) ELSE FracAdd(Head(fracs), SumOf(Tail(fracs)))

SquaredDeviations(fracs, mean) ==
    [i \in 1..Len(fracs) |->
        FracMul(FracSub(fracs[i], mean), FracSub(fracs[i], mean))]

\* block states mean, std (population), min, max, count of the fractions
Describes(block, fracs) ==
    /\ block.count = Len(fracs)
    /\ FracMul(block.mean, ToFrac(Len(fracs))) = SumOf(fracs)
    /\ FracMul(block.std.radicand, ToFrac(Len(fracs)))
         = SumOf(SquaredDeviations(fracs, block.mean))
    /\ \E i \in 1..Len(fracs) : fracs[i] = block.min
    /\ \E i \in 1..Len(fracs) : fracs[i] = block.max
    /\ \A i \in 1..Len(fracs) :
           ~FracLess(fracs[i], block.min) /\ ~FracLess(block.max, fracs[i])

\* the means of the groups that have the pair, in the order of the groups
RECURSIVE GroupMeans(_, _, _)
GroupMeans(stats, l, m) ==
    IF stats = <<>> THEN <<>>
    ELSE (IF InStats(Head(stats).stats, l, m)
          THEN <<Head(stats).stats[l][m].mean>> ELSE <<>>)
           \o GroupMeans(Tail(stats), l, m)

ValidUnit(unit) ==
    HasItems(unit) /\ \A l \in DOMAIN unit.kv : HasItems(unit.kv[l])

ValidUnits(cases) == \A k \in 1..Len(cases) : ValidUnit(cases[k].results)

\* a child directory whose name gives a group key and a sub-unit id
Recognized(name) == children[name].dir /\ extract_scene_and_case(name).ok

\* the recognized directories whose result file loads
Collectable ==
    {name \in DOMAIN children :
        /\ Recognized(name)
        /\ children[name].file = "json"
        /\ children[name].val # JNull}

CollectedUnits(all) ==
    UNION {{<<all[i].scene, all[i].cases[k].case_id, all[i].cases[k].results>> :
              k \in 1..Len(all[i].cases)} : i \in 1..Len(all)}

CollectedPairs(all) ==
    UNION {{<<all[i].scene, all[i].cases[k].case_id>> :
              k \in 1..Len(all[i].cases)} : i \in 1..Len(all)}

SamePair(n1, n2) ==
    /\ extract_scene_and_case(n1).scene = extract_scene_and_case(n2).scene
    /\ extract_scene_and_case(n1).case = extract_scene_and_case(n2).case

----------------------------------------------------------------------------
(* The claims.                                                             *)

\* C1: the statistics of a group hold no (label, metric) entry with count 0:
\* every StatBlock present has count >= 1 and as many values, no label maps
\* to an empty mapping, and a pair to which no sub-unit contributed a value
\* (no sub-unit holds there a value the type filter admits, an int or a
\* float of Python) is absent.
C1_NoEmptyStatBlock ==
    Aggregated =>
        \A i \in 1..Len(scene_stats) :
            LET st    == scene_stats[i].stats
                cases == all_results[i].cases
            IN  /\ \A l \in DOMAIN st :
                       /\ DOMAIN st[l] # {}
                       /\ \A m \in DOMAIN st[l] :
                              /\ st[l][m].count >= 1
                              /\ Len(st[l][m].values) = st[l][m].count
                /\ \A l \in AllLabels, m \in AllMetrics :
                       Holders(cases, l, m, {"num", "bool"}) = {}
                           => ~InStats(st, l, m)

\* C1's case: a group where sub-units hold only non-numbers at one pair,
\* which is absent, beside a pair that is present
C1_Witness ==
    /\ Aggregated
    /\ \E i \in 1..Len(scene_stats) :
           /\ Holders(all_results[i].cases, "ours_7000", "PSNR", {"str"}) # {}
           /\ Holders(all_results[i].cases, "ours_7000", "PSNR", {"num", "bool"}) = {}
           /\ ~InStats(scene_stats[i].stats, "ours_7000", "PSNR")
           /\ InStats(scene_stats[i].stats, "ours_30000", "SSIM")

\* C2: the overall StatBlock of a pair is computed over one value per group
\* that has the pair, that group's mean: its count is the number of such
\* groups, min and max the smallest and largest group mean, mean and std
\* those of the group means; a pair no group has is absent.  Two groups of
\* one sub-unit each, reporting 20 and 30, give mean 25, std 5, count 2.
C2_TwoLevelAggregation ==
    pc = "save" =>
        /\ \A l \in AllLabels, m \in AllMetrics :
               LET means == GroupMeans(scene_stats, l, m)
               IN  IF means = <<>>
                   THEN ~InStats(overall_stats, l, m)
                   ELSE /\ InStats(overall_stats, l, m)
                        /\ Describes(overall_stats[l][m], means)
                        /\ overall_stats[l][m].count =
                             Cardinality({i \in 1..Len(scene_stats) :
                                            InStats(scene_stats[i].stats, l, m)})
        /\ \A l \in DOMAIN overall_stats :
               l \in AllLabels /\ DOMAIN overall_stats[l] \subseteq AllMetrics
        /\ ( /\ Len(all_results) = 2
             /\ Len(all_results[1].cases) = 1
             /\ Len(all_results[2].cases) = 1
             /\ Reported(all_results[1].cases, "ours_7000", "PSNR", {"num"}) = <<20>>
             /\ Reported(all_results[2].cases, "ours_7000", "PSNR", {"num"}) = <<30>> )
           => /\ InStats(overall_stats, "ours_7000", "PSNR")
              /\ overall_stats["ours_7000"]["PSNR"] =
                   [mean |-> ToFrac(25), std |-> Sqrt(ToFrac(25)),
                    min |-> ToFrac(20), max |-> ToFrac(30), count |-> 2]

\* C2's case: three sub-units in two groups, 20 and 22 in one and 30 in the
\* other: the overall count is 2 and the overall mean (21 + 30) / 2
C2_Witness ==
    /\ pc = "save"
    /\ Len(scene_stats) = 2
    /\ InStats(scene_stats[1].stats, "ours_7000", "PSNR")
    /\ scene_stats[1].stats["ours_7000"]["PSNR"].values = <<20, 22>>
    /\ InStats(scene_stats[2].stats, "ours_7000", "PSNR")
    /\ scene_stats[2].stats["ours_7000"]["PSNR"].values = <<30>>
    /\ overall_stats["ours_7000"]["PSNR"].count = 2
    /\ overall_stats["ours_7000"]["PSNR"].mean = Frac(51, 2)

\* C3: for every group and pair, the StatBlock's values are exactly the
\* numbers reported by the sub-units that reported a numeric value (a JSON
\* number) there, in their order; count, min, max, mean and population std
\* are those of that sequence; with no such sub-unit the pair is absent.
C3_GroupStatBlock ==
    Aggregated =>
        \A i \in 1..Len(scene_stats), l \in AllLabels, m \in AllMetrics :
            LET st       == scene_stats[i].stats
                reported == Reported(all_results[i].cases, l, m, {"num"})
            IN  IF reported = <<>>
                THEN ~InStats(st, l, m)
                ELSE /\ InStats(st, l, m)
                     /\ st[l][m].values = reported
                     /\ Describes(st[l][m], Fracs(reported))

\* C4: every sub-unit id of the collection is a non-negative integer, taken
\* from a child directory whose name is a group key, the delimiter and a
\* suffix that parses as that integer.
C4_NonNegativeIds ==
    \A i \in 1..Len(all_results) :
        \A k \in 1..Len(all_results[i].cases) :
            /\ all_results[i].cases[k].case_id >= 0
            /\ \E name \in DOMAIN children :
                   /\ Recognized(name)
                   /\ extract_scene_and_case(name).scene = all_results[i].scene
                   /\ extract_scene_and_case(name).case = all_results[i].cases[k].case_id

\* C5: a recognized sub-unit whose result file is missing, unparseable or
\* malformed is left out of the collection, and where at least one
\* recognized sub-unit has a valid result file the run ends with status 0,
\* without an exception, its summary written.
C5_UnitFailuresNonFatal ==
    /\ \A i \in 1..Len(all_results) :
           \A k \in 1..Len(all_results[i].cases) :
               ValidUnit(all_results[i].cases[k].results)
    /\ ( /\ pc = "exit"
         /\ root = "dir"
         /\ \E name \in Collectable : ValidUnit(children[name].val) )
       => exit_code = 0 /\ message = "none" /\ written = formats

\* C6: a run that scans the root directory and can collect no sub-unit ends
\* with status 1 and "no results found", and writes neither file; no
\* summary is written, and no status 0 returned, without a collected
\* sub-unit.
C6_ZeroResultsFatal ==
    /\ (pc = "exit" /\ RootIsDir /\ Collectable = {})
           => exit_code = 1 /\ message = "no_results" /\ written = {}
    /\ Collectable = {} => written = {} /\ exit_code # 0
    /\ exit_code = 0 => all_results # <<>> /\ SumLens(all_results) >= 1
    /\ written # {} => CollectedPairs(all_results) # {} /\ metadata.num_cases >= 1

\* C6's case: two recognized directories, the result file of one missing
\* and of the other unparseable, and the run has ended on "no results found"
C6_Witness ==
    /\ pc = "exit"
    /\ message = "no_results"
    /\ exit_code = 1
    /\ \E name \in DOMAIN children :
           Recognized(name) /\ children[name].file = "absent"
    /\ \E name \in DOMAIN children :
           Recognized(name) /\ children[name].file = "garbage"

\* C7: where the root is no directory the run creates no directory, never
\* reaches the Locator, and ends on the root-directory-not-found error,
\* whatever the output directory option.
C7_MissingRootStopsRun ==
    root # "dir" =>
        /\ created = {}
        /\ pc \in {"start", "check_root", "exit"}
        /\ pc = "exit" => exit_code = 1 /\ message = "root_not_found"

\* the collection with every metric value that is no JSON number removed
StripNonNumbers(cases) ==
    [k \in 1..Len(cases) |->
        [case_id |-> cases[k].case_id,
         results |->
            JObj([l \in DOMAIN cases[k].results.kv |->
                    JObj([m \in {x \in DOMAIN cases[k].results.kv[l].kv :
                                   cases[k].results.kv[l].kv[x].t = "num"} |->
                             cases[k].results.kv[l].kv[m]])])]]

\* C8: only numbers contribute: the statistics of a group are those of the
\* group with every string, boolean, null, list and nested mapping taken
\* out of its metric mappings.
C8_TypeFilter ==
    Aggregated =>
        \A i \in 1..Len(scene_stats) :
            ValidUnits(all_results[i].cases) =>
                scene_stats[i].stats =
                    compute_scene_statistics(StripNonNumbers(all_results[i].cases))

\* C9: the collection is a function of the children alone, whatever the
\* order of enumeration: it holds exactly the units whose result file
\* loads, one per (group key, sub-unit id), and of two directories naming
\* the same pair the one processed later, the greater name, is kept.
C9_OrderIndependent ==
    Located =>
        /\ CollectedUnits(all_results) =
             {<<extract_scene_and_case(n).scene, extract_scene_and_case(n).case,
                children[n].val>> :
                n \in {w \in Collectable :
                         \A o \in Collectable : SamePair(w, o) => ~StrLess(w, o)}}
        /\ Cardinality(CollectedPairs(all_results)) = SumLens(all_results)

\* C9's case: x_case1 and x_case01 both load, with different contents, and
\* the collection holds the one of x_case1
C9_Witness ==
    /\ Located
    /\ {Name(<<"a">>, <<"1">>), Name(<<"a">>, <<"0", "1">>)} \subseteq Collectable
    /\ children[Name(<<"a">>, <<"1">>)].val # children[Name(<<"a">>, <<"0", "1">>)].val
    /\ CollectedUnits(all_results) = {<<<<"a">>, 1, children[Name(<<"a">>, <<"1">>)].val>>}

\* C10: in a summary main writes, scene_list is the sorted key set of the
\* per-scene statistics and of the collection, num_scenes its length,
\* num_cases the number of collected (group, sub-unit) pairs, and every
\* group listed has a collected sub-unit, so num_cases >= num_scenes >= 1.
C10_SummaryConsistent ==
    written # {} =>
        LET list == metadata.scene_list
        IN  /\ \A i \in 1..(Len(list) - 1) : StrLess(list[i], list[i + 1])
            /\ {list[i] : i \in 1..Len(list)}
                 = {scene_stats[i].scene : i \in 1..Len(scene_stats)}
            /\ {list[i] : i \in 1..Len(list)}
                 = {all_results[i].scene : i \in 1..Len(all_results)}
            /\ Len(scene_stats) = Len(list)
            /\ Len(all_results) = Len(list)
            /\ metadata.num_scenes = Len(list)
            /\ metadata.num_cases = Cardinality(CollectedPairs(all_results))
            /\ \A i \in 1..Len(all_results) : Len(all_results[i].cases) >= 1
            /\ metadata.num_cases >= metadata.num_scenes
            /\ metadata.num_scenes >= 1

\* C10's case: a summary is written that lists a group whose statistics are
\* empty, none of its sub-units having reported a number
C10_Witness ==
    /\ written # {}
    /\ metadata.num_scenes = 2
    /\ \E i \in 1..Len(scene_stats) :
           /\ scene_stats[i].stats = NoStats
           /\ \E j \in 1..Len(metadata.scene_list) :
                  metadata.scene_list[j] = scene_stats[i].scene

====
